---- MODULE Spec2Model ----
(***************************************************************************)
(* MessageStream and MessageQueue (KGS-Ben/message-stream): two wrappers   *)
(* around a redis client.  The model holds the store (one stream with one  *)
(* consumer group, one list), the client-side state of each MessageStream  *)
(* instance, and one action per store command a method awaits: a method    *)
(* runs from one await to the next in one step, as on the JS event loop.   *)
(***************************************************************************)
EXTENDS Integers, FiniteSets, Sequences, TLC

(* ------------------------------------------------------------------ *)
(* Bounds of the model.                                                 *)
(* ------------------------------------------------------------------ *)

\* XADD calls in one behaviour (the stream's ids are 1..MaxAdds).
MaxAdds == 3

\* XADD calls in one behaviour of two interleaved instances.
MaxGroupAdds == 3

\* Entries added for the consumer that keeps calling consumeMessage.
MaxLiveAdds == 3

\* Entries added while two callers share one instance.
MaxSharedAdds == 3

\* RPUSH calls that succeed in one behaviour of the queue.
MaxPushes == 3

\* The high-water mark of the processed-ID buffer.  The program sets 10000
\* (part_000 line 3); the model scales it down so that crossing it happens.
MAX_PROCESSED_IDS == 2

(* ------------------------------------------------------------------ *)
(* JavaScript values and their JSON text.                               *)
(* ------------------------------------------------------------------ *)

vObj == "{hello:'world'}"     \* an object: truthy, JSON-representable
vZero == "0"                  \* the number 0: falsy, JSON-representable
vNaN == "NaN"                 \* NaN: falsy, JSON.stringify gives "null"
vNull == "null"               \* null: falsy (met as a JSON.parse result)
Undefined == "undefined"      \* an unassigned `let` (absent message)

\* The payloads callers pass to addMessage / push.
Values == {vObj, vZero, vNaN}

\* The payloads of the queue: null is a JSON value too.
QueueValues == Values \cup {vNull}

\* typeof id === 'undefined': no entry id.  Stream ids are 1, 2, ...
Absent == 0

\* JSON.stringify(data)
JSON_stringify(v) ==
    CASE v = vObj -> "{\"hello\":\"world\"}"
      [] v = vZero -> "0"
      [] v = vNaN -> "null"
      [] v = vNull -> "null"

\* JSON.parse(text)
JSON_parse(t) ==
    CASE t = "{\"hello\":\"world\"}" -> vObj
      [] t = "0" -> vZero
      [] t = "null" -> vNull

\* ToBoolean(v), as `if (v)` and `!v` apply it
Truthy(v) == v = vObj

\* The values JSON text represents exactly.
JsonRepresentable(v) == JSON_parse(JSON_stringify(v)) = v

(* ------------------------------------------------------------------ *)
(* Instances.                                                           *)
(* ------------------------------------------------------------------ *)

Instances == {"c1", "c2"}

\* this.consumerId = process.env?.pm_id ?? '0' (one process per instance)
ConsumerId(i) == IF i = "c1" THEN "0" ELSE "1"

VARIABLES
    stream,               \* the store's stream: entry id -> JSON text of field `data`
    lastId,               \* the last id XADD generated
    group,                \* the consumer group: exists, lastDelivered, pending (id -> consumer)
    conn,                 \* per instance: the client socket, "closed" or "open"
    processedMessageIds,  \* per instance: this.processedMessageIds
    call,                 \* per instance: the frame of the method call in progress
    ret,                  \* per instance: the frame of the last call that completed
    added,                \* history: entry id -> the value passed to addMessage
    returned,             \* history: entry id -> instances whose consumeMessage returned it
    purgeFailed,          \* history: per instance, a bulk delete failed since the buffer was last cleared
    acks,                 \* history: per instance, ids consumeMessage recorded since the buffer was last empty
    purges,               \* history: per instance, automatic purges issued since the buffer was last empty
    tail0,                \* history: the last id generated when the group was created (-1: no group yet)
    acked,                \* history: entry id -> instances whose consumeMessage acknowledged it
    bg,                   \* per instance: a deleteProcessedMessages() call of a second caller
    queue,                \* the store's list: the JSON texts, head first
    qconn,                \* the MessageQueue client socket, "closed" or "open"
    qret,                 \* the last MessageQueue call that completed
    pushed,               \* history: the values of the pushes that succeeded
    popped                \* history: the results of the pops that removed an element

vars == <<stream, lastId, group, conn, processedMessageIds, call, ret,
          added, returned, purgeFailed, acks, purges, tail0, acked,
          bg, queue, qconn, qret, pushed, popped>>

\* What the MessageStream calls of the first caller leave alone.
rest == <<bg, queue, qconn, qret, pushed, popped>>

store == <<stream, lastId, group>>
hist == <<purgeFailed, acks, purges>>

Min(S) == CHOOSE x \in S : \A y \in S : x <= y

Restrict(f, S) == [x \in S |-> f[x]]

Extend(f, k, v) == [x \in (DOMAIN f) \cup {k} |-> IF x = k THEN v ELSE f[x]]

(* ------------------------------------------------------------------ *)
(* Frames: the locals of a call, and what the call did to the store.    *)
(* ------------------------------------------------------------------ *)

IdleFrame ==
    [op |-> "none", pc |-> "idle",
     id |-> Absent, message |-> Undefined,   \* let id; let message;
     arg |-> Undefined,                      \* the argument of addMessage
     ids |-> {},                             \* the ids spread into the XDEL in flight
     value |-> 0,                            \* the number length() returns
     raised |-> FALSE,                       \* the call threw to its caller
     failed |-> FALSE,                       \* a store command of the call failed
     error |-> "none",                       \* the error XGROUP CREATE answered
     claimed |-> Absent,                     \* the id getFailedMessage yielded
     readNew |-> Absent,                     \* the id XREADGROUP delivered
     ack |-> "none",                         \* XACK: none, ok, failed
     purge |-> "none",                       \* XDEL: none, ok, failed
     close |-> "none",                       \* client.disconnect(): none, ok, failed
     fresh |-> FALSE,                        \* addMessage met no backlog
     stage |-> 0, sv |-> Undefined, sx |-> Absent]

Frame(i, name) == [IdleFrame EXCEPT !.op = name]

Init ==
    /\ stream = <<>>
    /\ lastId = 0
    /\ group = [exists |-> FALSE, lastDelivered |-> 0, pending |-> <<>>]
    /\ conn = [i \in Instances |-> "closed"]
    /\ processedMessageIds = [i \in Instances |-> {}]
    /\ call = [i \in Instances |-> IdleFrame]
    /\ ret = [i \in Instances |-> IdleFrame]
    /\ added = <<>>
    /\ returned = <<>>
    /\ purgeFailed = [i \in Instances |-> FALSE]
    /\ acks = [i \in Instances |-> 0]
    /\ purges = [i \in Instances |-> 0]
    /\ tail0 = -1
    /\ acked = <<>>
    /\ bg = [i \in Instances |-> [pc |-> "idle", ids |-> {}]]
    /\ queue = <<>>
    /\ qconn = "closed"
    /\ qret = [op |-> "none", value |-> Undefined, size |-> 0,
               raised |-> FALSE, rejected |-> FALSE, removed |-> FALSE]
    /\ pushed = <<>>
    /\ popped = <<>>

(* ------------------------------------------------------------------ *)
(* The store's stream commands, as the redis server executes them.      *)
(* ------------------------------------------------------------------ *)

\* XADD key * data <text>: the new entry's id follows every id generated so far.
XADD_Id(last) == last + 1

XADD(s, last, text) == Extend(s, XADD_Id(last), text)

\* XGROUP CREATE key group $ MKSTREAM: a new group starts at the stream's last
\* generated id with an empty pending list; on an existing group the server
\* answers the error BUSYGROUP and changes nothing.
XGROUP_CREATE_Error(g) == IF g.exists THEN "BUSYGROUP" ELSE "none"

\* Mutant: the group is created at id 0, the start of the stream.
XGROUP_CREATE_FromStart(g, last) ==
    IF g.exists THEN g
    ELSE [exists |-> TRUE, lastDelivered |-> 0, pending |-> <<>>]

XGROUP_CREATE(g, last) ==
    IF g.exists THEN g
    ELSE [exists |-> TRUE, lastDelivered |-> last, pending |-> <<>>]

\* XAUTOCLAIM key group consumer 0 0 COUNT 1: the scan starts at id 0 and the
\* minimum idle time is 0, so the first pending entry always qualifies,
\* whoever owns it.  A pending id whose entry was deleted is dropped from the
\* pending list and no message is answered for it.
XAUTOCLAIM_First(g) == IF DOMAIN g.pending = {} THEN Absent ELSE Min(DOMAIN g.pending)

XAUTOCLAIM_Message(g, s) ==
    IF XAUTOCLAIM_First(g) # Absent /\ XAUTOCLAIM_First(g) \in DOMAIN s
    THEN XAUTOCLAIM_First(g) ELSE Absent

XAUTOCLAIM(g, s, consumer) ==
    LET p == XAUTOCLAIM_First(g) IN
    IF p = Absent THEN g
    ELSE IF p \in DOMAIN s
         THEN [g EXCEPT !.pending = [g.pending EXCEPT ![p] = consumer]]
         ELSE [g EXCEPT !.pending = Restrict(g.pending, DOMAIN g.pending \ {p})]

\* XREADGROUP GROUP group consumer COUNT 1 STREAMS key > : the first entry
\* after the group's cursor, which moves to it; the entry becomes pending.
\* Mutant: the newest entry after the cursor is answered, not the first.
XREADGROUP_Message_Newest(g, s) ==
    LET new == {x \in DOMAIN s : x > g.lastDelivered} IN
    IF new = {} THEN Absent ELSE CHOOSE x \in new : \A y \in new : y <= x

XREADGROUP_Message(g, s) ==
    LET new == {x \in DOMAIN s : x > g.lastDelivered} IN
    IF new = {} THEN Absent ELSE Min(new)

XREADGROUP(g, s, consumer) ==
    LET n == XREADGROUP_Message(g, s) IN
    IF n = Absent THEN g
    ELSE [g EXCEPT !.lastDelivered = n, !.pending = Extend(g.pending, n, consumer)]

\* Mutant: the acknowledgement names another group, the pending list keeps the id.
XACK_OtherGroup(g, x) == g

\* XACK key group id
XACK(g, x) == [g EXCEPT !.pending = Restrict(g.pending, DOMAIN g.pending \ {x})]

\* Mutant: only the first id is passed to the command.
XDEL_First(s, xs) ==
    IF xs = {} THEN s ELSE Restrict(s, DOMAIN s \ {Min(xs)})

\* XDEL key id [id ...]
XDEL(s, xs) == Restrict(s, DOMAIN s \ xs)

\* Mutant: the answer is the sequence part of the last entry's id.
XLEN_Last(s) ==
    IF DOMAIN s = {} THEN 0 ELSE CHOOSE x \in DOMAIN s : \A y \in DOMAIN s : y <= x

\* XLEN key
XLEN(s) == Cardinality(DOMAIN s)

(* ------------------------------------------------------------------ *)
(* Conditions of the client code.                                       *)
(* ------------------------------------------------------------------ *)

\* if (!message)
NoMessage(m) == ~Truthy(m)

\* Mutant: the acknowledgement runs without the check of id.
HasId_Always(x) == TRUE

\* if (id)
HasId(x) == x # Absent

\* Mutant: the flush waits for one id more.
ExceedsMark_Late(n) == n > MAX_PROCESSED_IDS + 1

\* Mutant: the flush starts on reaching the mark.
ExceedsMark_Early(n) == n >= MAX_PROCESSED_IDS

\* if (this.processedMessageIds.size > MAX_PROCESSED_IDS)
ExceedsMark(n) == n > MAX_PROCESSED_IDS

\* Mutant: the XDEL is issued without the check of the size.
NonEmptyBuffer_Always(buf) == TRUE

\* if (this.processedMessageIds.size > 0)
NonEmptyBuffer(buf) == Cardinality(buf) > 0

\* Mutant: every error of connect is rethrown.
ConnectRethrows_Always(err) == TRUE

\* error.message != 'BUSYGROUP Consumer Group name already exists'
ConnectRethrows(err) == err # "BUSYGROUP"

(* ------------------------------------------------------------------ *)
(* A call goes on to its next await, or completes.                      *)
(* ------------------------------------------------------------------ *)

\* No entry is pending and none lies after the cursor.
NoBacklog == /\ group.exists
             /\ DOMAIN group.pending = {}
             /\ \A x \in DOMAIN stream : x <= group.lastDelivered

Clean(f) == ~f.raised /\ ~f.failed

\* The observer of the sequence addMessage, consumeMessage, getFailedMessage
\* made by one caller with every store command succeeding.
Observed(prev, f) ==
    IF f.op = "addMessage" /\ Clean(f) /\ f.fresh
    THEN [f EXCEPT !.stage = 1, !.sv = f.arg, !.sx = f.id, !.fresh = FALSE]
    ELSE IF f.op = "consumeMessage" /\ Clean(f) /\ prev.stage = 1
    THEN [f EXCEPT !.stage = 2, !.sv = prev.sv, !.sx = prev.sx]
    ELSE IF f.op = "getFailedMessage" /\ Clean(f) /\ prev.stage = 2
    THEN [f EXCEPT !.stage = 3, !.sv = prev.sv, !.sx = prev.sx]
    ELSE [f EXCEPT !.fresh = FALSE]

Continue(i, f) ==
    /\ call' = [call EXCEPT ![i] = f]
    /\ UNCHANGED <<ret, returned>>

Return(i, f) ==
    /\ call' = [call EXCEPT ![i] = IdleFrame]
    /\ ret' = [ret EXCEPT ![i] = Observed(ret[i], [f EXCEPT !.pc = "idle"])]
    /\ returned' = IF f.op = "consumeMessage" /\ f.id # Absent
                   THEN Extend(returned, f.id,
                               (IF f.id \in DOMAIN returned THEN returned[f.id] ELSE {}) \cup {i})
                   ELSE returned

Idle(i) == call[i].pc = "idle"

Connected(i) == conn[i] = "open"

(* ------------------------------------------------------------------ *)
(* MessageStream.  `ok` is the outcome of the awaited command: FALSE is  *)
(* a rejected promise (transport failure), which leaves the store as is. *)
(* A stream command on a key without the group is rejected (NOGROUP).    *)
(* ------------------------------------------------------------------ *)

\* connect(), first await: this.client.connect()
Connect_Open(i, ok) ==
    /\ Idle(i) /\ conn[i] = "closed"
    /\ IF ok
       THEN /\ conn' = [conn EXCEPT ![i] = "open"]
            /\ Continue(i, [Frame(i, "connect") EXCEPT !.pc = "co_group"])
       ELSE /\ UNCHANGED conn
            /\ Return(i, [Frame(i, "connect") EXCEPT
                             !.failed = TRUE, !.error = "other",
                             !.raised = ConnectRethrows("other")])
    /\ UNCHANGED <<store, processedMessageIds, added, hist,
                 tail0, acked, rest>>

\* connect(), second await: XGROUP_CREATE(stream, group, '$', {MKSTREAM: true})
Connect_Group(i, ok) ==
    /\ call[i].pc = "co_group"
    /\ LET err == IF ok THEN XGROUP_CREATE_Error(group) ELSE "other" IN
       /\ group' = IF ok THEN XGROUP_CREATE(group, lastId) ELSE group
       /\ tail0' = IF ok /\ ~group.exists THEN lastId ELSE tail0
       /\ Return(i, [call[i] EXCEPT
                        !.failed = ~ok, !.error = err,
                        !.raised = (err # "none" /\ ConnectRethrows(err))])
    /\ UNCHANGED <<stream, lastId, conn, processedMessageIds, added, hist,
                 acked, rest>>

\* Mutant: clear() runs whether the XDEL resolved or not.
BufferAfterXDEL_Clear(buf, ok) == {}

\* this.processedMessageIds after `await XDEL(...)`: clear() runs once the
\* command has resolved, and is skipped when it rejects.
BufferAfterXDEL(buf, ok) == IF ok THEN {} ELSE buf

\* deleteProcessedMessages() from its await on: XDEL of the ids spread into
\* the command, then clear().
Flush(i, ok) ==
    /\ stream' = IF ok THEN XDEL(stream, call[i].ids) ELSE stream
    /\ processedMessageIds' =
          [processedMessageIds EXCEPT ![i] = BufferAfterXDEL(@, ok)]
    /\ purgeFailed' = [purgeFailed EXCEPT ![i] = ~ok]
    /\ UNCHANGED <<lastId, group, acks, purges>>

Flushed(f, ok) ==
    [f EXCEPT !.purge = IF ok THEN "ok" ELSE "failed",
              !.failed = @ \/ ~ok]

\* disconnect() up to its first await: deleteProcessedMessages() issues the
\* XDEL, or returns at once on an empty buffer.
Disconnect_Call(i) ==
    /\ Idle(i) /\ Connected(i)
    /\ IF NonEmptyBuffer(processedMessageIds[i])
       THEN Continue(i, [Frame(i, "disconnect") EXCEPT
                            !.pc = "dc_xdel", !.ids = processedMessageIds[i]])
       ELSE Continue(i, [Frame(i, "disconnect") EXCEPT !.pc = "dc_close"])
    /\ UNCHANGED <<store, conn, processedMessageIds, added, hist,
                 tail0, acked, rest>>

\* Mutant: the error of the flush leaves disconnect() before the close.
DisconnectRethrowsFlush_Always(ok) == ~ok

\* disconnect(), first catch block: console.error(error), nothing rethrown.
DisconnectRethrowsFlush(ok) == FALSE

\* disconnect(): the flush resolves or rejects; a rejection is logged.
Disconnect_XDEL(i, ok) ==
    /\ call[i].pc = "dc_xdel"
    /\ Flush(i, ok)
    /\ IF DisconnectRethrowsFlush(ok)
       THEN Return(i, [Flushed(call[i], ok) EXCEPT !.raised = TRUE])
       ELSE Continue(i, [Flushed(call[i], ok) EXCEPT !.pc = "dc_close"])
    /\ UNCHANGED <<conn, added,
                 tail0, acked, rest>>

\* disconnect(): this.client.disconnect()
Disconnect_Close(i, ok) ==
    /\ call[i].pc = "dc_close"
    /\ conn' = [conn EXCEPT ![i] = IF ok THEN "closed" ELSE @]
    /\ Return(i, [call[i] EXCEPT !.raised = ~ok, !.failed = @ \/ ~ok,
                                 !.close = IF ok THEN "ok" ELSE "failed"])
    /\ UNCHANGED <<store, processedMessageIds, added, hist,
                 tail0, acked, rest>>

\* addMessage(data)
AddMessage(i, v, ok) ==
    /\ Idle(i) /\ Connected(i)
    /\ LET f == [Frame(i, "addMessage") EXCEPT !.arg = v, !.fresh = NoBacklog] IN
       IF ok
       THEN /\ stream' = XADD(stream, lastId, JSON_stringify(v))
            /\ lastId' = XADD_Id(lastId)
            /\ added' = Extend(added, XADD_Id(lastId), v)
            /\ Return(i, [f EXCEPT !.id = XADD_Id(lastId)])
       ELSE /\ UNCHANGED <<stream, lastId, added>>
            /\ Return(i, [f EXCEPT !.raised = TRUE, !.failed = TRUE])
    /\ UNCHANGED <<group, conn, processedMessageIds, hist,
                 tail0, acked, rest>>

\* The frame of getFailedMessage() once XAUTOCLAIM has answered.
Claimed(f, ok) ==
    LET m == XAUTOCLAIM_Message(group, stream) IN
    IF ok /\ group.exists
    THEN IF m # Absent
         THEN [f EXCEPT !.id = m, !.claimed = m,
                        !.message = JSON_parse(stream[m])]
         ELSE f
    ELSE [f EXCEPT !.failed = TRUE]

\* getFailedMessage(), called by the application
GetFailedMessage(i, ok) ==
    /\ Idle(i) /\ Connected(i)
    /\ group' = IF ok /\ group.exists
                THEN XAUTOCLAIM(group, stream, ConsumerId(i)) ELSE group
    /\ LET f == Claimed(Frame(i, "getFailedMessage"), ok) IN
       Return(i, [f EXCEPT !.raised = f.failed])
    /\ UNCHANGED <<stream, lastId, conn, processedMessageIds, added, hist,
                 tail0, acked, rest>>

\* consumeMessage(), first await: getFailedMessage(), whose error is logged
ConsumeMessage_XAUTOCLAIM(i, ok) ==
    /\ Idle(i) /\ Connected(i)
    /\ group' = IF ok /\ group.exists
                THEN XAUTOCLAIM(group, stream, ConsumerId(i)) ELSE group
    /\ LET f == Claimed(Frame(i, "consumeMessage"), ok) IN
       IF NoMessage(f.message)
       THEN Continue(i, [f EXCEPT !.pc = "cm_read"])
       ELSE IF HasId(f.id)
            THEN Continue(i, [f EXCEPT !.pc = "cm_ack"])
            ELSE Return(i, f)
    /\ UNCHANGED <<stream, lastId, conn, processedMessageIds, added, hist,
                 tail0, acked, rest>>

\* consumeMessage(), second await: XREADGROUP ... '>' BLOCK 2000 COUNT 1;
\* an empty answer throws NoMessageFoundError, which is logged.
ConsumeMessage_XREADGROUP(i, ok) ==
    /\ call[i].pc = "cm_read"
    /\ LET good == ok /\ group.exists
           n == XREADGROUP_Message(group, stream)
           f == IF good /\ n # Absent
                THEN [call[i] EXCEPT !.id = n, !.readNew = n,
                                     !.message = JSON_parse(stream[n])]
                ELSE [call[i] EXCEPT !.failed = @ \/ ~good]
       IN
       /\ group' = IF good THEN XREADGROUP(group, stream, ConsumerId(i)) ELSE group
       /\ IF HasId(f.id)
          THEN Continue(i, [f EXCEPT !.pc = "cm_ack"])
          ELSE Return(i, f)
    /\ UNCHANGED <<stream, lastId, conn, processedMessageIds, added, hist,
                 tail0, acked, rest>>

\* Mutant: the id is added whether the XACK resolved or not.
BufferAfterXACK_Always(buf, x, ok) == buf \cup {x}

\* this.processedMessageIds after `await XACK(...)`: add(id) runs once the
\* command has resolved, and is skipped when it rejects.
BufferAfterXACK(buf, x, ok) == IF ok THEN buf \cup {x} ELSE buf

\* consumeMessage(), third await: XACK, then processedMessageIds.add(id) and
\* the size check; a rejected XACK is logged and skips both.
ConsumeMessage_XACK(i, ok) ==
    /\ call[i].pc = "cm_ack"
    /\ LET buf == processedMessageIds[i]
           new == BufferAfterXACK(buf, call[i].id, ok)
           flush == ok /\ ExceedsMark(Cardinality(new)) /\ NonEmptyBuffer(new)
           f == [call[i] EXCEPT !.failed = @ \/ ~ok,
                                !.ack = IF ok THEN "ok" ELSE "failed"]
       IN
       /\ group' = IF ok THEN XACK(group, call[i].id) ELSE group
       /\ processedMessageIds' = [processedMessageIds EXCEPT ![i] = new]
       /\ acked' = IF ok
                   THEN Extend(acked, call[i].id,
                               (IF call[i].id \in DOMAIN acked
                                THEN acked[call[i].id] ELSE {}) \cup {i})
                   ELSE acked
       /\ acks' = [acks EXCEPT ![i] = IF ~ok THEN @ ELSE IF buf = {} THEN 1 ELSE @ + 1]
       /\ purges' = [purges EXCEPT ![i] =
                        (IF ok /\ buf = {} THEN 0 ELSE @) + (IF flush THEN 1 ELSE 0)]
       /\ IF flush
          THEN Continue(i, [f EXCEPT !.pc = "cm_flush", !.ids = new])
          ELSE Return(i, f)
    /\ UNCHANGED <<stream, lastId, conn, added, purgeFailed,
                 tail0, rest>>

\* consumeMessage(), fourth await: deleteProcessedMessages(), whose error is logged
ConsumeMessage_XDEL(i, ok) ==
    /\ call[i].pc = "cm_flush"
    /\ Flush(i, ok)
    /\ Return(i, Flushed(call[i], ok))
    /\ UNCHANGED <<conn, added,
                 tail0, acked, rest>>

\* deleteProcessedMessages(), called by the application, up to its await
DeleteProcessedMessages_Call(i) ==
    /\ Idle(i) /\ Connected(i)
    /\ IF NonEmptyBuffer(processedMessageIds[i])
       THEN Continue(i, [Frame(i, "deleteProcessedMessages") EXCEPT
                            !.pc = "dp_xdel", !.ids = processedMessageIds[i]])
       ELSE Return(i, Frame(i, "deleteProcessedMessages"))
    /\ UNCHANGED <<store, conn, processedMessageIds, added, hist,
                 tail0, acked, rest>>

\* deleteProcessedMessages(): the XDEL resolves, or rejects and the method throws
DeleteProcessedMessages_XDEL(i, ok) ==
    /\ call[i].pc = "dp_xdel"
    /\ Flush(i, ok)
    /\ Return(i, [Flushed(call[i], ok) EXCEPT !.raised = ~ok])
    /\ UNCHANGED <<conn, added,
                 tail0, acked, rest>>

\* deleteProcessedMessages() of a second caller of the same instance, up to
\* its await: the ids in the buffer at this moment are spread into the XDEL.
Shared_Call(i) ==
    /\ bg[i].pc = "idle" /\ Connected(i)
    /\ bg' = IF NonEmptyBuffer(processedMessageIds[i])
             THEN [bg EXCEPT ![i] = [pc |-> "dp_xdel", ids |-> processedMessageIds[i]]]
             ELSE bg
    /\ UNCHANGED <<store, conn, processedMessageIds, call, ret, added, returned,
                   hist, tail0, acked, queue, qconn, qret, pushed, popped>>

\* deleteProcessedMessages() of the second caller: the XDEL resolves and
\* clear() empties the buffer as it is now, or the XDEL rejects.
Shared_XDEL(i, ok) ==
    /\ bg[i].pc = "dp_xdel"
    /\ stream' = IF ok THEN XDEL(stream, bg[i].ids) ELSE stream
    /\ processedMessageIds' =
          [processedMessageIds EXCEPT ![i] = BufferAfterXDEL(@, ok)]
    /\ purgeFailed' = [purgeFailed EXCEPT ![i] = ~ok]
    /\ bg' = [bg EXCEPT ![i] = [pc |-> "idle", ids |-> {}]]
    /\ UNCHANGED <<lastId, group, conn, call, ret, added, returned, acks, purges,
                   tail0, acked, queue, qconn, qret, pushed, popped>>

\* length()
Length(i, ok) ==
    /\ Idle(i) /\ Connected(i)
    /\ Return(i, [Frame(i, "length") EXCEPT
                     !.value = IF ok THEN XLEN(stream) ELSE 0,
                     !.raised = ~ok, !.failed = ~ok])
    /\ UNCHANGED <<store, conn, processedMessageIds, added, hist,
                 tail0, acked, rest>>

(* ------------------------------------------------------------------ *)
(* MessageQueue (src/MessageQueue.js): the store's list commands and the *)
(* five methods, each one awaited command.                               *)
(* ------------------------------------------------------------------ *)

\* What the MessageQueue calls leave alone.
streamVars == <<stream, lastId, group, conn, processedMessageIds, call, ret,
                added, returned, purgeFailed, acks, purges, tail0, acked, bg>>

\* The nil reply of the store, which the client hands over as null.
Nil == "nil"

\* Mutant: LPUSH, the value goes to the head of the list.
RPUSH_Head(q, t) == <<t>> \o q

\* RPUSH key text
RPUSH(q, t) == Append(q, t)

\* LPOP key: the reply
LPOP_Reply(q) == IF q = <<>> THEN Nil ELSE Head(q)

\* Mutant: the head is read and stays in the list.
LPOP_Keep(q) == q

\* LPOP key: the list afterwards
LPOP(q) == IF q = <<>> THEN q ELSE Tail(q)

\* LLEN key
LLEN(q) == Len(q)

\* JSON.parse applies ToString to its argument: null reads as the text null.
JS_ToString(reply) == IF reply = Nil THEN "null" ELSE reply

\* Mutant: the parse of a nil reply throws.
JSON_parse_Throws_Nil(reply) == reply = Nil

\* JSON.parse(data) throws a SyntaxError: on no text push has written, nor on null.
JSON_parse_Throws(reply) == FALSE

QueueFrame(name) ==
    [op |-> name, value |-> Undefined, size |-> 0,
     raised |-> FALSE, rejected |-> FALSE, removed |-> FALSE]

\* MessageQueue.connect()
Queue_Connect(ok) ==
    /\ qconn = "closed"
    /\ qconn' = IF ok THEN "open" ELSE qconn
    /\ qret' = [QueueFrame("connect") EXCEPT !.raised = ~ok, !.rejected = ~ok]
    /\ UNCHANGED <<queue, pushed, popped, streamVars>>

\* MessageQueue.disconnect()
Queue_Disconnect(ok) ==
    /\ qconn = "open"
    /\ qconn' = IF ok THEN "closed" ELSE qconn
    /\ qret' = [QueueFrame("disconnect") EXCEPT !.raised = ~ok, !.rejected = ~ok]
    /\ UNCHANGED <<queue, pushed, popped, streamVars>>

\* MessageQueue.push(data)
Push(v, ok) ==
    /\ qconn = "open"
    /\ queue' = IF ok THEN RPUSH(queue, JSON_stringify(v)) ELSE queue
    /\ pushed' = IF ok THEN Append(pushed, v) ELSE pushed
    /\ qret' = [QueueFrame("push") EXCEPT !.raised = ~ok, !.rejected = ~ok]
    /\ UNCHANGED <<qconn, popped, streamVars>>

\* MessageQueue.pop()
Pop(ok) ==
    /\ qconn = "open"
    /\ LET reply == LPOP_Reply(queue)
           throws == ~ok \/ JSON_parse_Throws(reply)
           took == ok /\ reply # Nil
       IN
       /\ queue' = IF ok THEN LPOP(queue) ELSE queue
       /\ popped' = IF took /\ ~throws
                    THEN Append(popped, JSON_parse(JS_ToString(reply)))
                    ELSE popped
       /\ qret' = [QueueFrame("pop") EXCEPT
                      !.raised = throws, !.rejected = ~ok, !.removed = took,
                      !.value = IF throws THEN Undefined
                                ELSE JSON_parse(JS_ToString(reply))]
    /\ UNCHANGED <<qconn, pushed, streamVars>>

\* MessageQueue.size()
Size(ok) ==
    /\ qconn = "open"
    /\ qret' = [QueueFrame("size") EXCEPT
                   !.raised = ~ok, !.rejected = ~ok,
                   !.size = IF ok THEN LLEN(queue) ELSE 0]
    /\ UNCHANGED <<queue, qconn, pushed, popped, streamVars>>

(* ------------------------------------------------------------------ *)
(* Specifications.                                                      *)
(* ------------------------------------------------------------------ *)

Calls(i, ok) ==
    \/ Connect_Open(i, ok)
    \/ Connect_Group(i, ok)
    \/ Disconnect_Call(i)
    \/ Disconnect_XDEL(i, ok)
    \/ Disconnect_Close(i, ok)
    \/ GetFailedMessage(i, ok)
    \/ ConsumeMessage_XAUTOCLAIM(i, ok)
    \/ ConsumeMessage_XREADGROUP(i, ok)
    \/ ConsumeMessage_XACK(i, ok)
    \/ ConsumeMessage_XDEL(i, ok)
    \/ DeleteProcessedMessages_Call(i)
    \/ DeleteProcessedMessages_XDEL(i, ok)
    \/ Length(i, ok)

\* One instance, one caller that awaits each call before the next; any
\* awaited command may be rejected.
Next ==
    \E ok \in BOOLEAN :
        \/ Calls("c1", ok)
        \/ \E v \in Values : lastId < MaxAdds /\ AddMessage("c1", v, ok)

Spec == Init /\ [][Next]_vars

\* Two instances of the same group, their calls interleaved at the awaits,
\* every command succeeding.
NextGroup ==
    \E i \in Instances :
        \/ Connect_Open(i, TRUE)
        \/ Connect_Group(i, TRUE)
        \/ ConsumeMessage_XAUTOCLAIM(i, TRUE)
        \/ ConsumeMessage_XREADGROUP(i, TRUE)
        \/ ConsumeMessage_XACK(i, TRUE)
        \/ ConsumeMessage_XDEL(i, TRUE)
        \/ DeleteProcessedMessages_Call(i)
        \/ DeleteProcessedMessages_XDEL(i, TRUE)
        \/ lastId < MaxGroupAdds /\ AddMessage(i, vObj, TRUE)

SpecGroup == Init /\ [][NextGroup]_vars

\* One instance driven by two callers: consumeMessage calls of the one are
\* interleaved at the awaits with deleteProcessedMessages calls of the other.
NextShared ==
    \/ Connect_Open("c1", TRUE)
    \/ Connect_Group("c1", TRUE)
    \/ lastId < MaxSharedAdds /\ AddMessage("c1", vObj, TRUE)
    \/ ConsumeMessage_XAUTOCLAIM("c1", TRUE)
    \/ ConsumeMessage_XREADGROUP("c1", TRUE)
    \/ ConsumeMessage_XACK("c1", TRUE)
    \/ \E ok \in BOOLEAN : ConsumeMessage_XDEL("c1", ok)
    \/ Shared_Call("c1")
    \/ \E ok \in BOOLEAN : Shared_XDEL("c1", ok)

SpecShared == Init /\ [][NextShared]_vars

\* The steps of consumeMessage() of the one consumer, commands succeeding.
ConsumeLoop ==
    \/ ConsumeMessage_XAUTOCLAIM("c1", TRUE)
    \/ ConsumeMessage_XREADGROUP("c1", TRUE)
    \/ ConsumeMessage_XACK("c1", TRUE)
    \/ ConsumeMessage_XDEL("c1", TRUE)

\* A single connected consumer and a producer, every command succeeding.
NextLive ==
    \/ Connect_Open("c1", TRUE)
    \/ Connect_Group("c1", TRUE)
    \/ \E v \in Values : lastId < MaxLiveAdds /\ AddMessage("c1", v, TRUE)
    \/ ConsumeLoop

\* The consumer keeps calling consumeMessage and every call runs to its end.
SpecLive == Init /\ [][NextLive]_vars /\ WF_vars(ConsumeLoop)

\* One MessageQueue instance; any awaited command may be rejected.
NextQueue ==
    \E ok \in BOOLEAN :
        \/ Queue_Connect(ok)
        \/ Queue_Disconnect(ok)
        \/ \E v \in QueueValues : Len(pushed) < MaxPushes /\ Push(v, ok)
        \/ Pop(ok)
        \/ Size(ok)

SpecQueue == Init /\ [][NextQueue]_vars

(* ------------------------------------------------------------------ *)
(* Claims.                                                              *)
(* ------------------------------------------------------------------ *)

\* The state in which consumeMessage has just returned to the caller of i.
ConsumeReturned(i) == Idle(i) /\ ret[i].op = "consumeMessage"

\* C1: no entry id is returned by the consumeMessage calls of two different
\* consumers of the group.
C1_AtMostOneConsumer ==
    \A x \in DOMAIN returned : Cardinality(returned[x]) <= 1

\* C2 as stated: for every value v, consumeMessage after addMessage(v) (one
\* caller, nothing else pending or undelivered, commands succeeding) returns
\* a non-absent id and a message equal to v, and getFailedMessage called
\* next returns {id: absent, message: absent}.
C2_RoundTripAnyValue ==
    \A i \in Instances :
        /\ ret[i].stage = 2 =>
              /\ ret[i].id # Absent
              /\ ret[i].message = ret[i].sv
        /\ ret[i].stage = 3 =>
              /\ ret[i].id = Absent
              /\ ret[i].message = Undefined

\* C2 amended: the same for every value v that JSON text represents; a value
\* it does not represent comes back as JSON.parse(JSON.stringify(v)).  The id
\* returned is the one addMessage returned.
C2_RoundTrip ==
    \A i \in Instances :
        /\ ret[i].stage = 2 =>
              /\ ret[i].id # Absent
              /\ ret[i].id = ret[i].sx
              /\ ret[i].message = JSON_parse(JSON_stringify(ret[i].sv))
              /\ JsonRepresentable(ret[i].sv) => ret[i].message = ret[i].sv
        /\ ret[i].stage = 3 =>
              /\ ret[i].id = Absent
              /\ ret[i].message = Undefined

\* C2 witness: the three calls were made with the falsy payload 0.
C2_Witness ==
    \E i \in Instances : ret[i].stage = 3 /\ ret[i].sv = vZero

\* C3: a consumeMessage call in which getFailedMessage yielded an entry
\* returns that entry and reads no new entry from the group's cursor.
C3_FailedFirst ==
    \A i \in Instances :
        ret[i].op = "consumeMessage" /\ ret[i].claimed # Absent =>
            /\ ret[i].id = ret[i].claimed
            /\ ret[i].readNew = Absent

\* C4: when consumeMessage returns a non-absent id, the entry is no longer
\* pending in the group, and its id is in the instance's processed-ID buffer
\* or already deleted from the stream.
C4_Acknowledged ==
    \A i \in Instances :
        ConsumeReturned(i) /\ ret[i].id # Absent =>
            /\ ret[i].id \notin DOMAIN group.pending
            /\ \/ ret[i].id \in processedMessageIds[i]
               \/ ret[i].id \notin DOMAIN stream

ConsumeStep(i) ==
    /\ call'[i] # call[i]
    /\ call[i].op = "consumeMessage" \/ call'[i].op = "consumeMessage"

\* The local `id` of that call after the step.
IdAfter(i) == IF call'[i].op = "consumeMessage" THEN call'[i].id ELSE ret'[i].id

\* C7: consumeMessage never raises; a call in which neither path produced an
\* entry returns {id: absent, message: absent}, and no step of it changes the
\* stream, the group's pending list and cursor, or the processed-ID buffer.
C7_NoData ==
    /\ [](\A i \in Instances :
             ret[i].op = "consumeMessage" =>
                 /\ ~ret[i].raised
                 /\ ret[i].id = Absent => ret[i].message = Undefined)
    /\ [][\A i \in Instances :
             ConsumeStep(i) /\ IdAfter(i) = Absent =>
                 UNCHANGED <<stream, lastId, group, processedMessageIds>>]_vars

\* C7 witness: a call returned absent from a stream that holds entries, its
\* reclaim or its read having been rejected.
C7_Witness ==
    \E i \in Instances :
        /\ ConsumeReturned(i) /\ ret[i].id = Absent /\ ret[i].failed
        /\ DOMAIN stream # {}

\* C8: a rejected bulk delete makes deleteProcessedMessages raise and leaves
\* the buffer as it was (the ids given to the XDEL); a successful one removes
\* every one of those ids from the stream and empties the buffer.
C8_PurgeOutcome ==
    \A i \in Instances :
        Idle(i) /\ ret[i].op = "deleteProcessedMessages" =>
            /\ ret[i].purge = "failed" =>
                  /\ ret[i].raised
                  /\ ret[i].ids # {}
                  /\ processedMessageIds[i] = ret[i].ids
            /\ ret[i].purge = "ok" =>
                  /\ ~ret[i].raised
                  /\ processedMessageIds[i] = {}
                  /\ ret[i].ids \cap DOMAIN stream = {}

\* C8 witness: a bulk delete of ids still in the stream was rejected.
C8_Witness ==
    \E i \in Instances :
        /\ Idle(i) /\ ret[i].op = "deleteProcessedMessages"
        /\ ret[i].purge = "failed"
        /\ ret[i].ids # {} /\ ret[i].ids \subseteq DOMAIN stream

\* C9: deleteProcessedMessages on an empty buffer issues no command, changes
\* neither the store nor the buffer, and does not raise.
C9_EmptyNoop ==
    /\ [](\A i \in Instances :
             call[i].op = "deleteProcessedMessages" => call[i].ids # {})
    /\ [][\A i \in Instances :
             /\ Idle(i) /\ processedMessageIds[i] = {}
             /\ ret'[i] # ret[i] /\ ret'[i].op = "deleteProcessedMessages"
             => /\ ~ret'[i].raised
                /\ ret'[i].purge = "none"
                /\ UNCHANGED <<stream, lastId, group, processedMessageIds>>]_vars

\* C9 witness: the call returned without a command while the stream held entries.
C9_Witness ==
    \E i \in Instances :
        /\ Idle(i) /\ ret[i].op = "deleteProcessedMessages"
        /\ ret[i].purge = "none" /\ ~ret[i].raised
        /\ processedMessageIds[i] = {} /\ DOMAIN stream # {}

\* C10: a connect that finds the group existing does not raise and leaves
\* the group's cursor and pending list as they are; any other failure of
\* connect raises.
C10_ConnectTwice ==
    /\ [](\A i \in Instances :
             ret[i].op = "connect" =>
                 /\ ret[i].error = "BUSYGROUP" => ~ret[i].raised
                 /\ ret[i].error = "other" => ret[i].raised
                 /\ ret[i].error = "none" => ~ret[i].raised)
    /\ [][\A i \in Instances :
             call[i].pc = "co_group" /\ call'[i] # call[i] /\ group.exists
             => /\ group' = group
                /\ stream' = stream]_vars

\* C10 witness: a second connect met the group with its cursor advanced and
\* an entry pending.
C10_Witness ==
    \E i \in Instances :
        /\ Idle(i) /\ ret[i].op = "connect" /\ ret[i].error = "BUSYGROUP"
        /\ group.lastDelivered > 0 /\ group.lastDelivered < lastId
        /\ DOMAIN group.pending # {}

\* C11: disconnect closes the connection whatever the flush did; a rejected
\* flush is not raised; a rejected close is raised, whether the flush
\* succeeded, failed or was not needed.
C11_DisconnectPolicies ==
    \A i \in Instances :
        Idle(i) /\ ret[i].op = "disconnect" =>
            /\ ret[i].close # "none"
            /\ ret[i].raised <=> ret[i].close = "failed"
            /\ ret[i].close = "ok" => conn[i] = "closed"
            /\ ret[i].purge = "failed" =>
                  processedMessageIds[i] = ret[i].ids

\* C11 witness: the flush was rejected, the close went through, nothing raised.
C11_Witness ==
    \E i \in Instances :
        /\ Idle(i) /\ ret[i].op = "disconnect"
        /\ ret[i].purge = "failed" /\ ret[i].close = "ok"
        /\ ~ret[i].raised /\ conn[i] = "closed"

\* The results of pop that are not absent (null).
NonAbsent(rs) == SelectSeq(rs, LAMBDA r : r # vNull)

IsPrefix(a, b) == Len(a) <= Len(b) /\ \A k \in 1..Len(a) : a[k] = b[k]

\* C12 as stated: the non-absent values pop returned are, in order, a prefix
\* of the values pushed; the pop that empties the queue returns the value
\* pushed last; size then returns 0.
C12_FifoAnyValue ==
    /\ IsPrefix(NonAbsent(popped), pushed)
    /\ qret.op = "pop" /\ qret.removed /\ ~qret.raised /\ queue = <<>> =>
          qret.value = pushed[Len(pushed)]
    /\ qret.op = "size" /\ ~qret.raised /\ queue = <<>> => qret.size = 0

\* C12 amended: the results of the pops that removed an element are, in
\* order, JSON.parse(JSON.stringify(v)) for a prefix of the values pushed,
\* which is v itself for every value JSON represents; the list holds the
\* texts of the values not yet popped, in push order; size returns 0 on the
\* empty queue.
C12_Fifo ==
    /\ Len(popped) <= Len(pushed)
    /\ \A k \in 1..Len(popped) :
          /\ popped[k] = JSON_parse(JSON_stringify(pushed[k]))
          /\ JsonRepresentable(pushed[k]) => popped[k] = pushed[k]
    /\ Len(queue) = Len(pushed) - Len(popped)
    /\ \A k \in 1..Len(queue) :
          queue[k] = JSON_stringify(pushed[Len(popped) + k])
    /\ qret.op = "pop" /\ qret.removed /\ ~qret.raised /\ queue = <<>> =>
          qret.value = JSON_parse(JSON_stringify(pushed[Len(pushed)]))
    /\ qret.op = "size" /\ ~qret.raised /\ queue = <<>> => qret.size = 0

\* C12 witness: two values pushed, the falsy 0 first, both popped in that
\* order, and size has returned 0.
C12_Witness ==
    /\ pushed = <<vZero, vObj>> /\ popped = <<vZero, vObj>>
    /\ qret.op = "size" /\ ~qret.raised /\ qret.size = 0

\* C13: size returns the number of pushes that succeeded minus the number of
\* pops that removed an element.
C13_SizeCounts ==
    qret.op = "size" /\ ~qret.raised =>
        qret.size = Len(pushed) - Len(popped)

\* C13 witness: three pushes, two pops, size has returned 1.
C13_Witness ==
    /\ qret.op = "size" /\ ~qret.raised /\ qret.size = 1
    /\ Len(pushed) >= 3 /\ Len(popped) = Len(pushed) - 1

\* C14: a pop whose command went through on an empty queue returns absent
\* (null) without raising, and the queue stays empty.
C14_PopEmpty ==
    /\ [](qret.op = "pop" /\ ~qret.rejected /\ ~qret.removed =>
             /\ ~qret.raised
             /\ qret.value = vNull
             /\ queue = <<>>)
    /\ [][queue = <<>> /\ qret' # qret /\ qret'.op = "pop" =>
             /\ queue' = <<>>
             /\ ~qret'.removed
             /\ UNCHANGED <<pushed, popped>>]_vars

\* C14 witness: pop returned absent on a queue emptied by earlier pops.
C14_Witness ==
    /\ qret.op = "pop" /\ ~qret.rejected /\ ~qret.removed /\ ~qret.raised
    /\ Len(pushed) > 0 /\ queue = <<>>

\* A bulk delete of instance i resolves in this step.
PurgeStep(i) ==
    /\ call[i].pc \in {"dc_xdel", "cm_flush", "dp_xdel"}
    /\ \/ call'[i].pc # "idle" /\ call'[i].purge = "ok"
       \/ call'[i].pc = "idle" /\ ret'[i].purge = "ok"

\* C15: length returns the number of entries in the stream, whatever the
\* group has read, reclaimed or acknowledged; the number changes only by a
\* successful addMessage, by plus one, and by a successful purge, by minus
\* the number of buffered ids still in the stream.
C15_Length ==
    /\ [](\A i \in Instances :
             Idle(i) /\ ret[i].op = "length" /\ ~ret[i].raised =>
                 ret[i].value = Cardinality(DOMAIN stream))
    /\ [][LET n == Cardinality(DOMAIN stream) IN
          /\ added' # added => Cardinality(DOMAIN stream') = n + 1
          /\ \A i \in Instances :
                PurgeStep(i) =>
                    Cardinality(DOMAIN stream') =
                        n - Cardinality(processedMessageIds[i] \cap DOMAIN stream)
          /\ Cardinality(DOMAIN stream') # n =>
                added' # added \/ \E i \in Instances : PurgeStep(i)]_vars

\* C15 witness: three entries were added, a purge deleted two, and length,
\* with an entry read and acknowledged, has returned 1.
C15_Witness ==
    \E i \in Instances :
        /\ Idle(i) /\ ret[i].op = "length" /\ ~ret[i].raised
        /\ ret[i].value = 1 /\ lastId = 3
        /\ DOMAIN stream \subseteq DOMAIN acked

\* C16: the group starts at the tail the stream had when it was created: an
\* entry appended before is never read, pending, acknowledged or returned by
\* consumeMessage or getFailedMessage; an entry appended after is still to
\* be read, pending, or acknowledged.
C16_StartsAtTail ==
    /\ group.exists <=> tail0 >= 0
    /\ \A i \in Instances :
          /\ call[i].id # Absent /\ call[i].op \in {"consumeMessage", "getFailedMessage"}
                => call[i].id > tail0
          /\ ret[i].id # Absent /\ ret[i].op \in {"consumeMessage", "getFailedMessage"}
                => ret[i].id > tail0
    /\ \A x \in DOMAIN returned \cup DOMAIN acked \cup DOMAIN group.pending : x > tail0
    /\ group.exists =>
          \A x \in DOMAIN stream :
              IF x <= tail0
              THEN x <= group.lastDelivered
              ELSE \/ x > group.lastDelivered
                   \/ x \in DOMAIN group.pending
                   \/ x \in DOMAIN acked

\* C16 witness: an entry was appended before the group was created and is
\* still in the stream, and consumeMessage has returned a later entry.
C16_Witness ==
    /\ tail0 >= 1 /\ tail0 \in DOMAIN stream
    /\ \E i \in Instances :
          /\ Idle(i) /\ ret[i].op = "consumeMessage"
          /\ ret[i].id > tail0 /\ ret[i].id \in DOMAIN returned

\* C17: after a disconnect whose flush did not fail, the buffer of the
\* instance is empty and no entry the instance acknowledged in
\* consumeMessage is left in the stream.
C17_FlushedAtShutdown ==
    \A i \in Instances :
        Idle(i) /\ ret[i].op = "disconnect" /\ ret[i].purge # "failed" =>
            /\ processedMessageIds[i] = {}
            /\ \A x \in DOMAIN acked : i \in acked[x] => x \notin DOMAIN stream

\* C17 witness: disconnect has flushed two acknowledged entries.
C17_Witness ==
    \E i \in Instances :
        /\ Idle(i) /\ ret[i].op = "disconnect" /\ ret[i].purge = "ok"
        /\ Cardinality({x \in DOMAIN acked : i \in acked[x]}) >= 2
        /\ \E x \in DOMAIN stream : x \notin DOMAIN acked

\* The entries a step deletes from the stream.
Deleted == DOMAIN stream \ DOMAIN stream'

\* Instance i acknowledged every id in its buffer, and none is pending.
BufferAcked ==
    \A i \in Instances : \A x \in processedMessageIds[i] :
        /\ x \in DOMAIN acked /\ i \in acked[x]
        /\ x \notin DOMAIN group.pending

\* C18 as stated: every id in a buffer was acknowledged before it was added,
\* and a purge only deletes entries that are pending for no consumer and
\* that a consumeMessage call has already returned.
C18_PurgesReturnedOnly ==
    /\ []BufferAcked
    /\ [][\A x \in Deleted :
             /\ x \notin DOMAIN group.pending
             /\ x \in DOMAIN returned]_vars

\* C18 amended: every id in a buffer was acknowledged before it was added,
\* and a purge only deletes acknowledged entries that are pending for no
\* consumer and that a consumeMessage call has returned or, for the id that
\* took the buffer over the mark, holds and returns when the purge is over.
C18_PurgesAckedOnly ==
    /\ []BufferAcked
    /\ [](\A i \in Instances : \A x \in processedMessageIds[i] :
             \/ x \in DOMAIN returned /\ i \in returned[x]
             \/ call[i].pc = "cm_flush" /\ call[i].id = x)
    /\ [][\A x \in Deleted :
             /\ x \notin DOMAIN group.pending
             /\ x \in DOMAIN acked
             /\ \/ x \in DOMAIN returned
                \/ \E i \in Instances :
                      /\ call[i].pc = "cm_flush" /\ call[i].id = x
                      /\ ret'[i].op = "consumeMessage" /\ ret'[i].id = x]_vars

\* C18 witness: deleteProcessedMessages has deleted an entry consumeMessage
\* had returned, while an entry whose acknowledgement was rejected is still
\* pending and in the stream.
C18_Witness ==
    \E i \in Instances :
        /\ Idle(i) /\ ret[i].op = "deleteProcessedMessages" /\ ret[i].purge = "ok"
        /\ \E x \in ret[i].ids : x \notin DOMAIN stream /\ i \in returned[x]
        /\ \E x \in DOMAIN stream : x \in DOMAIN group.pending /\ x \in DOMAIN returned

\* C19: an id leaves the buffer only once its entry is deleted from the
\* stream, also when consumeMessage and deleteProcessedMessages calls on one
\* instance interleave: every entry the instance acknowledged is in its
\* buffer or gone from the stream.
C19_LeavesOnlyDeleted ==
    \A i \in Instances : \A x \in DOMAIN acked :
        i \in acked[x] => x \in processedMessageIds[i] \/ x \notin DOMAIN stream

\* A consumeMessage call of instance i returns in this step.
ConsumeReturns(i) ==
    /\ call[i].op = "consumeMessage" /\ call[i].pc # "idle"
    /\ call'[i].pc = "idle"

\* C20: with one connected consumer that keeps calling consumeMessage and
\* commands that succeed, every entry added after the group was created is
\* eventually returned by consumeMessage; no id is returned twice, and each
\* id returned is greater than every id returned before.
C20_EventuallyOnceInOrder ==
    /\ \A x \in 1..(MaxLiveAdds + 1) :
          (group.exists /\ x \in DOMAIN added /\ x > tail0) ~> (x \in DOMAIN returned)
    /\ [][\A i \in Instances :
             ConsumeReturns(i) /\ ret'[i].id # Absent =>
                 /\ ret'[i].id \notin DOMAIN returned
                 /\ \A y \in DOMAIN returned : y < ret'[i].id
                 /\ ret'[i].id \in DOMAIN added /\ ret'[i].id > tail0]_vars

\* C20 witness: three entries were added after the group was created and
\* consumeMessage has returned each, the third last, and flushed them.
C20_Witness ==
    /\ group.exists /\ DOMAIN added = {1, 2, 3} /\ DOMAIN returned = {1, 2, 3}
    /\ Idle("c1") /\ ret["c1"].op = "consumeMessage" /\ ret["c1"].id = 3
    /\ ret["c1"].purge = "ok" /\ stream = <<>>

====
